---- MODULE Spec2Model ----
(***************************************************************************)
(* Model of src/src/index.ts (class WPTCReverts): the recentchange handler *)
(* that filters edits, recognises revert signatures, strips them from the  *)
(* summary and hands a formatted text to twitter.v1.tweet, together with   *)
(* the periodic getPages refresh of this.pages.                            *)
(*                                                                         *)
(* JavaScript strings are TLA+ strings; Len counts UTF-16 units as .length *)
(* does.  Regular expressions are data (sequences of nodes) interpreted by *)
(* a backtracking matcher that tries alternatives in the order the         *)
(* ECMAScript matcher does.                                                *)
(***************************************************************************)
EXTENDS Integers, Sequences, FiniteSets, TLC

(***************************************************************************)
(* String helpers                                                          *)
(***************************************************************************)

\* s[i] of JavaScript (1-based here); "" when out of range
CharAt(s, i) == IF i >= 1 /\ i <= Len(s) THEN SubSeq(s, i, i) ELSE ""

\* the literal lit occurs in s at position i
IsAt(s, lit, i) ==
    /\ i >= 1
    /\ i + Len(lit) - 1 <= Len(s)
    /\ SubSeq(s, i, i + Len(lit) - 1) = lit

\* String.prototype.includes
Includes(s, lit) == \E i \in 1..(Len(s) - Len(lit) + 1) : IsAt(s, lit, i)

\* "-".repeat(n)
RECURSIVE Repeat(_, _)
Repeat(c, n) ==
    IF n <= 0 THEN ""
    ELSE LET half == Repeat(c, n \div 2)
         IN  half \o half \o (IF n % 2 = 1 THEN c ELSE "")

\* substr keeping one character more than asked for
Substr0_OneMore(s, n) == SubSeq(s, 1, IF n + 1 < Len(s) THEN n + 1 ELSE Len(s))

\* String.prototype.substr(0, n): a length n <= 0 gives ""
Substr0(s, n) == IF n <= 0 THEN "" ELSE SubSeq(s, 1, IF n < Len(s) THEN n ELSE Len(s))

\* `${n}` of a non-negative integer
RECURSIVE NumToString(_)
NumToString(n) ==
    IF n < 10 THEN SubSeq("0123456789", n + 1, n + 1)
    ELSE NumToString(n \div 10) \o SubSeq("0123456789", (n % 10) + 1, (n % 10) + 1)

(***************************************************************************)
(* Regular expressions as data                                             *)
(***************************************************************************)

Lit(str) == [t |-> "lit", s |-> str]            \* literal text
Cls(chars) == [t |-> "cls", c |-> chars]        \* one character of a set
Dot == [t |-> "dot"]                            \* . (no line terminator)
Bol == [t |-> "bol"]                            \* ^ (no m flag)
Eol == [t |-> "eol"]                            \* $ (no m flag)
Plus(atom) == [t |-> "plus", a |-> atom, lazy |-> FALSE]     \* x+
PlusLazy(atom) == [t |-> "plus", a |-> atom, lazy |-> TRUE]  \* x+?
Alt(alts) == [t |-> "alt", alts |-> alts]       \* (a|b|...), in order
Opt(seq) == Alt(<< seq, << >> >>)               \* (x)? is (x|)

Digit == Cls({"0", "1", "2", "3", "4", "5", "6", "7", "8", "9"})

LineTerminators == {"\n", "\r"}

\* the other case of an ASCII letter the modelled i-flag patterns use
OtherCase(c) ==
    CASE c = "r" -> "R" [] c = "v" -> "V" [] c = "d" -> "D" [] c = "a" -> "A"
      [] c = "n" -> "N" [] c = "l" -> "L" [] c = "i" -> "I" [] c = "s" -> "S"
      [] c = "m" -> "M" [] OTHER -> c

\* Canonicalize of the i flag: the characters equal to c up to case
Fold(c, ic) == IF ic THEN {c, OtherCase(c)} ELSE {c}

\* the literal lit occurs in s at position i, up to case when ic
IsAtFold(s, lit, i, ic) ==
    IF ~ic THEN IsAt(s, lit, i)
    ELSE /\ i >= 1
         /\ i + Len(lit) - 1 <= Len(s)
         /\ \A k \in 1..Len(lit) : CharAt(s, i + k - 1) \in Fold(CharAt(lit, k), TRUE)

\* a single-character atom accepts the character ch
AtomOK(atom, ch, ic) ==
    CASE atom.t = "dot" -> ch # "" /\ ch \notin LineTerminators
      [] atom.t = "cls" -> \E c \in atom.c : ch \in Fold(c, ic)
      [] OTHER -> FALSE

\* The backtracking matcher: Match(re, k, s, pos, ic) matches re[k..]
\* against s from position pos and returns the position after the match the
\* ECMAScript matcher finds first, or 0 when there is none.  x+ takes the
\* most characters that let the rest match, x+? the fewest; of the
\* alternatives of (a|b) the first that lets the rest match is taken.
RECURSIVE Match(_, _, _, _, _)

\* the atom of the x+ at re[k] takes n characters from pos on and the rest
\* of re matches after them
Fits(re, k, s, pos, ic, n) ==
    /\ n >= 1 /\ n <= Len(s) - pos + 1
    /\ Match(re, k + 1, s, pos + n, ic) # 0
    /\ \A m \in 1..n : AtomOK(re[k].a, CharAt(s, pos + m - 1), ic)

\* the fewest characters that fit, one more than are left when none does
Fewest(re, k, s, pos, ic, most) ==
    CHOOSE n \in 1..(most + 1) :
        /\ n = most + 1 \/ Fits(re, k, s, pos, ic, n)
        /\ \A m \in 1..(n - 1) : ~Fits(re, k, s, pos, ic, m)

\* the most characters that fit, 0 when none does
Longest(re, k, s, pos, ic, most) ==
    most - (CHOOSE i \in 0..most :
              /\ i = most \/ Fits(re, k, s, pos, ic, most - i)
              /\ \A j \in 0..(i - 1) : ~Fits(re, k, s, pos, ic, most - j))

\* the rest of re after the x+ at re[k] has taken `taken` characters
AfterPlus(re, k, s, pos, ic, most, taken) ==
    IF taken < 1 \/ taken > most THEN 0 ELSE Match(re, k + 1, s, pos + taken, ic)

\* alternative a of the (a|b) at re[k], then the rest of re
ViaAlt(re, k, s, pos, ic, a) ==
    Match(re[k].alts[a] \o SubSeq(re, k + 1, Len(re)), 1, s, pos, ic)

\* the first alternative that lets the rest match, one more than there are
\* when none does
FirstAlt(re, k, s, pos, ic, count) ==
    CHOOSE a \in 1..(count + 1) :
        /\ a = count + 1 \/ ViaAlt(re, k, s, pos, ic, a) # 0
        /\ \A b \in 1..(a - 1) : ViaAlt(re, k, s, pos, ic, b) = 0

AfterAlt(re, k, s, pos, ic, count, a) ==
    IF a > count THEN 0 ELSE ViaAlt(re, k, s, pos, ic, a)

Match(re, k, s, pos, ic) ==
    IF k > Len(re) THEN pos
    ELSE CASE re[k].t = "lit" ->
                IF IsAtFold(s, re[k].s, pos, ic)
                THEN Match(re, k + 1, s, pos + Len(re[k].s), ic) ELSE 0
           [] re[k].t = "bol" -> IF pos = 1 THEN Match(re, k + 1, s, pos, ic) ELSE 0
           [] re[k].t = "eol" -> IF pos = Len(s) + 1 THEN Match(re, k + 1, s, pos, ic) ELSE 0
           [] re[k].t \in {"dot", "cls"} ->
                IF AtomOK(re[k], CharAt(s, pos), ic)
                THEN Match(re, k + 1, s, pos + 1, ic) ELSE 0
           [] re[k].t = "plus" ->
                AfterPlus(re, k, s, pos, ic, Len(s) - pos + 1,
                          IF re[k].lazy THEN Fewest(re, k, s, pos, ic, Len(s) - pos + 1)
                          ELSE Longest(re, k, s, pos, ic, Len(s) - pos + 1))
           [] re[k].t = "alt" ->
                AfterAlt(re, k, s, pos, ic, Len(re[k].alts),
                         FirstAlt(re, k, s, pos, ic, Len(re[k].alts)))
           [] OTHER -> 0

\* re matches from position p on.  A pattern that begins with a literal
\* matches only where the literal stands: the test spares the matcher the
\* other positions.
MatchesAt(re, s, p, ic) ==
    /\ p <= Len(s) + 1
    /\ Len(re) > 0 /\ re[1].t = "lit" /\ ~ic => IsAt(s, re[1].s, p)
    /\ Match(re, 1, s, p, ic) # 0

\* the first position from `from` on at which re matches, `end` when there
\* is none
Scan(re, s, from, ic, end) ==
    CHOOSE p \in from..end :
        /\ p = end \/ MatchesAt(re, s, p, ic)
        /\ \A r \in from..(p - 1) : ~MatchesAt(re, s, r, ic)

OrZero(p, end) == IF p = end THEN 0 ELSE p

\* the first position from `from` on at which re matches, or 0; a pattern
\* that begins with ^ matches at position 1 or nowhere
FirstMatch(re, s, from, ic) ==
    IF Len(re) > 0 /\ re[1].t = "bol"
    THEN IF from = 1 /\ Match(re, 1, s, 1, ic) # 0 THEN 1 ELSE 0
    ELSE IF from > Len(s) + 1 THEN 0
    ELSE OrZero(Scan(re, s, from, ic, Len(s) + 2), Len(s) + 2)

\* RegExp.prototype.test of a fresh regular expression (lastIndex 0)
Test(re, s, ic) == FirstMatch(re, s, 1, ic) # 0

\* GetSubstitution: the $-patterns of a replacement string.  The modelled
\* patterns have no capture the replacement could name, so $1..$99 stay as
\* they are.
RECURSIVE Expand(_, _, _, _)

\* rep with its first $ at position i
ExpandAt(rep, matched, before, after, i) ==
    IF i = 0 \/ i = Len(rep) THEN rep
    ELSE SubSeq(rep, 1, i - 1) \o
         (CASE CharAt(rep, i + 1) = "$" -> "$"
            [] CharAt(rep, i + 1) = "&" -> matched
            [] CharAt(rep, i + 1) = "`" -> before
            [] CharAt(rep, i + 1) = "'" -> after
            [] OTHER -> "$" \o CharAt(rep, i + 1))
         \o Expand(SubSeq(rep, i + 2, Len(rep)), matched, before, after)

Expand(rep, matched, before, after) ==
    ExpandAt(rep, matched, before, after, FirstMatch(<< Lit("$") >>, rep, 1, FALSE))

\* String.prototype.replace with a g-flag regular expression: every match,
\* left to right, none overlapping; `from` is where the scan resumes and
\* `whole` the subject the $-patterns refer to
RECURSIVE ReplaceFrom(_, _, _, _, _)

\* the match begins at p and ends before q
ReplaceSpan(re, whole, from, rep, ic, p, q) ==
    SubSeq(whole, from, p - 1)
      \o Expand(rep, SubSeq(whole, p, q - 1), SubSeq(whole, 1, p - 1),
                SubSeq(whole, q, Len(whole)))
      \o (IF q > p THEN ReplaceFrom(re, whole, q, rep, ic)
          ELSE \* an empty match: the scan moves on by one character
               CharAt(whole, p) \o ReplaceFrom(re, whole, p + 1, rep, ic))

\* the next match begins at p, if p is not 0
ReplaceAt(re, whole, from, rep, ic, p) ==
    IF p = 0 THEN SubSeq(whole, from, Len(whole))
    ELSE ReplaceSpan(re, whole, from, rep, ic, p, Match(re, 1, whole, p, ic))

ReplaceFrom(re, whole, from, rep, ic) ==
    ReplaceAt(re, whole, from, rep, ic, FirstMatch(re, whole, from, ic))

Replace(re, s, rep, ic) == ReplaceFrom(re, s, 1, rep, ic)

(***************************************************************************)
(* Program constants                                                       *)
(***************************************************************************)

TWEET_URL == "https://en.wikipedia.org/wiki/Special:Diff/{{{diff}}}"

TWEET_TEXT ==
    "New revert by {{{user}}} on \"{{{title}}}\": \"{{{summary}}}\" " \o TWEET_URL

TWEET_TEXT_EMPTY ==
    "New revert by {{{user}}} on \"{{{title}}}\" with no given reason. " \o TWEET_URL

\* the 280 of nonSummaryLength
TweetLimit == 280

\* the 24 of "-".repeat(24)
FillerLength == 24

\* /rv[vd]|vand(alism)?/gi
VandalismPattern ==
    << Alt(<< << Lit("rv"), Cls({"v", "d"}) >>,
              << Lit("vand"), Opt(<< Lit("alism") >>) >> >>) >>

\* the signatures array, in its order: Rollback, Undo, RedWarn, Twinkle.
\* In the last one (talk) is a capturing group, not escaped parentheses.
signatures ==
    << << Bol, Lit("Reverted "), Plus(Digit), Lit(" edit"), Opt(<< Lit("s") >>),
          Lit(" by "), PlusLazy(Dot), Lit(" (talk) to last version by "),
          PlusLazy(Dot), Lit(" (talk)") >>,
       << Bol, Lit("Undid revision "), PlusLazy(Dot), Lit(" by "), PlusLazy(Dot),
          Lit(" (talk)"), Opt(<< Lit(" ") >>) >>,
       << Bol, Lit("Reverting edit(s) by "), Plus(Dot), Lit(" to rev"), Dot, Lit(" "),
          Plus(Dot), Lit(" "), Plus(Digit), Lit(" by "), PlusLazy(Dot),
          Opt(<< Lit(":"), Opt(<< Lit(" ") >>) >>) >>,
       << Bol, Lit("Reverted "), Plus(Digit), Lit(" edit"), Opt(<< Lit("s") >>),
          Lit(" by "), Plus(Dot), Lit(" "), Lit("talk"),
          Alt(<< << Lit(":"), Opt(<< Lit(" ") >>) >>, << Eol >> >>) >> >>

\* / ?\(talk\)/g
TalkLink == << Opt(<< Lit(" ") >>), Lit("(talk)") >>

\* /https:.+$/g
UrlPattern == << Lit("https:"), Plus(Dot), Eol >>

(***************************************************************************)
(* The recentchange handler, step by step                                  *)
(***************************************************************************)

\* cheerio.load(html) followed by $.root().text(): the text nodes of the
\* markup, tags dropped and the character references MediaWiki emits in a
\* parsed comment resolved
RECURSIVE DropTags(_)

\* the tag that opens at lt closes at gt; 0 stands for no such position
DropTag(html, lt, gt) ==
    IF gt = 0 THEN SubSeq(html, 1, lt - 1)
    ELSE SubSeq(html, 1, lt - 1) \o DropTags(SubSeq(html, gt + 1, Len(html)))

DropFrom(html, lt) ==
    IF lt = 0 THEN html
    ELSE DropTag(html, lt, FirstMatch(<< Lit(">") >>, html, lt + 1, FALSE))

DropTags(html) == DropFrom(html, FirstMatch(<< Lit("<") >>, html, 1, FALSE))

Text(html) ==
    LET t0 == DropTags(html)
        t1 == Replace(<< Lit("&lt;") >>, t0, "<", FALSE)
        t2 == Replace(<< Lit("&gt;") >>, t1, ">", FALSE)
        t3 == Replace(<< Lit("&quot;") >>, t2, "\"", FALSE)
        t4 == Replace(<< Lit("&#039;") >>, t3, "'", FALSE)
    IN  Replace(<< Lit("&amp;") >>, t4, "&", FALSE)

\* a membership check that only asks whether anything is monitored
PagesInclude_Any(pgs, title) == Len(pgs) > 0

\* this.pages.includes(change.title)
PagesInclude(pgs, title) == \E i \in 1..Len(pgs) : pgs[i] = title

\* signatures.some(v => v.test(summary))
MatchesSignature(summary) ==
    \E i \in 1..Len(signatures) : Test(signatures[i], summary, FALSE)

\* the for loop over signatures: each replace in turn, on the result of the
\* one before
RECURSIVE StripSignatures(_, _)
StripSignatures(s, i) ==
    IF i > Len(signatures) THEN s
    ELSE StripSignatures(Replace(signatures[i], s, "", FALSE), i + 1)

\* strippedSummary after the loop and the talk-link replace
strippedSummary(summary) == Replace(TalkLink, StripSignatures(summary, 1), "", FALSE)

\* TWEET_TEXT with user and title filled in
WithUserAndTitle(template, change) ==
    Replace(<< Lit("{{{title}}}") >>,
            Replace(<< Lit("{{{user}}}") >>, template, change.user, FALSE),
            change.title, FALSE)

\* the text whose length nonSummaryLength subtracts from 280
NonSummaryText(change) ==
    Replace(UrlPattern,
            Replace(<< Lit("{{{summary}}}") >>, WithUserAndTitle(TWEET_TEXT, change), "", FALSE),
            Repeat("-", FillerLength), FALSE)

\* a budget one character too generous
nonSummaryLength_OneMore(change) == TweetLimit + 1 - Len(NonSummaryText(change))

nonSummaryLength(change) == TweetLimit - Len(NonSummaryText(change))

\* the argument of twitter.v1.tweet in the branch strippedSummary.length > 0
TweetWithSummary(change, stripped) ==
    Replace(<< Lit("{{{diff}}}") >>,
            Replace(<< Lit("{{{summary}}}") >>, WithUserAndTitle(TWEET_TEXT, change),
                    Substr0(stripped, nonSummaryLength(change)), FALSE),
            NumToString(change.revision), FALSE)

\* the argument of twitter.v1.tweet in the else branch
TweetEmpty(change) ==
    Replace(<< Lit("{{{diff}}}") >>, WithUserAndTitle(TWEET_TEXT_EMPTY, change),
            NumToString(change.revision), FALSE)

\* line 68: the wiki and type filter
IsEnwikiEdit(change) == change.wiki = "enwiki" /\ change.type = "edit"

\* an exemption that forgets the Huggle marker
IsExempt_BotOnly(change) == change.user = "ClueBot NG"

\* line 73: edits by Huggle or ClueBot NG are left alone
IsExempt(change) ==
    Includes(change.comment, "([[WP:HG|HG]])") \/ change.user = "ClueBot NG"

\* line 75
MentionsVandalism(change) == Test(VandalismPattern, change.comment, TRUE)

\* a length test that lets the empty summary through
HasSummary_Always(stripped) == Len(stripped) >= 0

\* line 108
HasSummary(stripped) == Len(stripped) > 0

\* What one run of the handler does with `change` when this.pages is `pgs`:
\* it returns without publishing, throws, or calls twitter.v1.tweet(text).
\* A missing comment makes change.comment.includes throw (line 73), a missing
\* revision makes change.revision.new throw (line 105).
Outcome(kind, change, pgs, text, template, reason) ==
    [kind |-> kind, change |-> change, seen |-> pgs, text |-> text,
     template |-> template, reason |-> reason]

\* lines 104 to 129: the log line reads change.revision.new, then the text
\* is handed to twitter.v1.tweet
Publish(change, pgs, stripped) ==
    IF "revision" \in change.undef THEN Outcome("threw", change, pgs, "", "", stripped)
    ELSE IF HasSummary(stripped)
         THEN Outcome("tweeted", change, pgs, TweetWithSummary(change, stripped),
                      "TWEET_TEXT", stripped)
         ELSE Outcome("tweeted", change, pgs, TweetEmpty(change), "TWEET_TEXT_EMPTY", stripped)

\* lines 92 to 102
Recognise(change, pgs, summary) ==
    IF ~MatchesSignature(summary) THEN Outcome("returned", change, pgs, "", "", "")
    ELSE Publish(change, pgs, strippedSummary(summary))

\* lines 73 to 129: what the handler does with an event the filters of
\* lines 68 to 71 let through
Classify(change, pgs) ==
    IF "comment" \in change.undef THEN Outcome("threw", change, pgs, "", "", "")
    ELSE IF IsExempt(change) THEN Outcome("returned", change, pgs, "", "", "")
    ELSE IF MentionsVandalism(change) THEN Outcome("returned", change, pgs, "", "", "")
    ELSE Recognise(change, pgs, Text(change.parsedcomment))

\* a reduce that drops its accumulator: only the last batch is kept
Links_LastBatch(queries) == IF Len(queries) = 0 THEN << >> ELSE queries[Len(queries)]

\* the reduce of getPages: the link titles of every result of the continued
\* query, in order, collected into a fresh array
RECURSIVE Links(_)
Links(queries) ==
    IF Len(queries) = 0 THEN << >>
    ELSE Links(SubSeq(queries, 1, Len(queries) - 1)) \o queries[Len(queries)]

(***************************************************************************)
(* Inputs: what the event stream and the wiki API can deliver              *)
(***************************************************************************)

\* length of the long edit summary reason
LongReasonLength == 300

\* length of the long page title; with the editor "Foo" it leaves no room
\* for the reason
LongTitleLength == 228

\* getPages calls that may await their query at once
MaxPending == 1

\* tweet promises that may be unsettled at once
MaxUnsettled == 1

LongTitle == Repeat("T", LongTitleLength)

\* what continuedQuery may resolve to: a sequence of results, each with the
\* link titles of one batch
Queries ==
    { << <<"Typhoon Tip", "Hurricane Katrina">>, <<LongTitle>> >>,
      << <<"Typhoon Tip">> >>,
      << >> }

\* An edit summary is a sequence of segments, plain text or a wiki link.
\* change.comment is its wikitext, change.parsedcomment the markup MediaWiki
\* renders it to.
Plain(str) == [link |-> FALSE, text |-> str, target |-> ""]
Link(target, label) == [link |-> TRUE, text |-> label, target |-> target]

\* htmlspecialchars of a text segment
Escape(str) ==
    LET e0 == Replace(<< Lit("&") >>, str, "&amp;", FALSE)
        e1 == Replace(<< Lit("<") >>, e0, "&lt;", FALSE)
        e2 == Replace(<< Lit(">") >>, e1, "&gt;", FALSE)
        e3 == Replace(<< Lit("\"") >>, e2, "&quot;", FALSE)
    IN  Replace(<< Lit("'") >>, e3, "&#039;", FALSE)

RECURSIVE Wikitext(_)
Wikitext(segs) ==
    IF Len(segs) = 0 THEN ""
    ELSE (IF segs[1].link THEN "[[" \o segs[1].target \o "|" \o segs[1].text \o "]]"
          ELSE segs[1].text)
           \o Wikitext(Tail(segs))

RECURSIVE Markup(_)
Anchor(target, label) ==
    "<a href=\"/wiki/" \o target \o "\" title=\"" \o target \o "\">" \o label \o "</a>"

Markup(segs) ==
    IF Len(segs) = 0 THEN ""
    ELSE (IF segs[1].link THEN Anchor(segs[1].target, Escape(segs[1].text))
          ELSE Escape(segs[1].text))
           \o Markup(Tail(segs))

\* "A (talk)" with the links the revert tools write
UserAndTalk(name) ==
    << Link("Special:Contributions/" \o name, name), Plain(" ("),
       Link("User talk:" \o name, "talk"), Plain(")") >>

\* how a summary may begin: the four tools' signatures, a Twinkle summary
\* with the talk link in parentheses, and two summaries of no tool
Prefixes ==
    { << Plain("Reverted 1 edit by Foo (talk) to last version by Bar (talk)") >>,
      << Plain("Undid revision 12345 by Foo (talk)") >>,
      << Plain("Reverting edit(s) by Foo (talk) to rev. id 123 by Zed") >>,
      << Plain("Reverted 2 edits by Foo talk") >>,
      << Plain("Reverted 2 edits by Foo (talk)") >>,
      << Plain("Fixed typo") >>,
      << Plain("See Undid revision 1 by Foo (talk)") >> }

\* the same with links
LinkedPrefixes ==
    { << Plain("Reverted 1 edit by ") >> \o UserAndTalk("Foo")
         \o << Plain(" to last version by ") >> \o UserAndTalk("Bar"),
      << Plain("Undid revision 12345 by ") >> \o UserAndTalk("Foo") }

\* how it may go on
Tails ==
    { << >>,
      << Plain(": unsourced claim") >>,
      << Plain(" test edits") >>,
      << Plain(" (ta (talk)lk)") >>,
      << Plain(": Reverting edit(s) by X to rev. Y 1 by Z: r") >>,
      << Plain(": \"R&D\" <see talk>") >>,
      << Plain(": obvious Vandalism") >>,
      << Plain(": unsourced claim ("), Link("WP:HG", "HG"), Plain(")") >> }

\* a reason longer than a tweet, and one made of the replacement pattern $'
\* (the text after the match)
LongTails ==
    { << Plain(": " \o Repeat("x", LongReasonLength)) >>,
      << Plain(": " \o Repeat("$'", LongReasonLength \div 30)) >> }

Event(w, y, t, u, m, r, d) ==
    [wiki |-> w, type |-> y, title |-> t, user |-> u, comment |-> Wikitext(m),
     parsedcomment |-> Markup(m), revision |-> r, undef |-> d]

\* the edits of enwiki with short summaries, every field present
ShortEdits ==
    { Event("enwiki", "edit", t, u, p \o m, 7, {}) :
        t \in {"Typhoon Tip", "Cat"}, u \in {"Foo", "ClueBot NG"},
        p \in Prefixes, m \in Tails }

\* edits of a page that is monitored after some refreshes only
KatrinaEdits ==
    { Event("enwiki", "edit", "Hurricane Katrina", "Foo", p \o m, 7, {}) :
        p \in Prefixes, m \in { << >>, << Plain(": unsourced claim") >> } }

LinkedEdits ==
    { Event("enwiki", "edit", t, "Foo", p \o m, 7, {}) :
        t \in {"Typhoon Tip", "Cat"}, p \in LinkedPrefixes,
        m \in { << >>, << Plain(": unsourced claim") >> } }

\* the edits whose editor, title and reason compete for the 280 characters
LongEdits ==
    { Event("enwiki", "edit", t, u, p \o m, r, {}) :
        t \in {"Typhoon Tip", LongTitle}, u \in {"Foo", "Jimbo Wales"},
        p \in { << Plain("Reverted 1 edit by Foo (talk) to last version by Bar (talk)") >>,
                << Plain("Reverted 2 edits by Foo talk") >> },
        m \in LongTails \cup { << >>, << Plain(": unsourced claim") >> },
        r \in {7, 1234567890} }

PlainUndo == << Plain("Undid revision 12345 by Foo (talk)") >>

\* events of other wikis and other types
Others ==
    { Event(w, y, "Typhoon Tip", "Foo", PlainUndo, 7, {}) :
        w \in {"enwiki", "dewiki"}, y \in {"edit", "log", "new"} }

\* events with a field missing
Malformed ==
    { Event("enwiki", "edit", t, "Foo", PlainUndo, 7, d) :
        t \in {"Typhoon Tip", "Cat"}, d \in {{"comment"}, {"revision"}} }

Events == ShortEdits \cup KatrinaEdits \cup LinkedEdits \cup LongEdits \cup Others \cup Malformed

\* Classify of every event, worked out once: it reads nothing of the state
\* but the array it records as seen
Classified == [c \in Events |-> Classify(c, << >>)]

\* the whole handler on `change` when this.pages is `pgs`
Handle(change, pgs) ==
    IF ~IsEnwikiEdit(change) THEN Outcome("returned", change, pgs, "", "", "")
    ELSE IF ~PagesInclude(pgs, change.title) THEN Outcome("returned", change, pgs, "", "", "")
    ELSE [Classified[change] EXCEPT !.seen = pgs]

(***************************************************************************)
(* State                                                                   *)
(***************************************************************************)

VARIABLES
    pages,      \* this.pages
    listening,  \* start() has registered the recentchange handler
    alive,      \* the process runs
    pending,    \* getPages calls awaiting continuedQuery
    unsettled,  \* promises of twitter.v1.tweet not yet settled
    last        \* the handler run that has just ended: its event and outcome

vars == << pages, listening, alive, pending, unsettled, last >>

None == [kind |-> "none"]

Init ==
    /\ pages = << >>
    /\ listening = FALSE
    /\ alive = TRUE
    /\ pending = 0
    /\ unsettled = 0
    /\ last = None

\* start(): the first getPages is awaited, then the interval is set and the
\* handlers are registered
Start(queries) ==
    /\ alive /\ ~listening /\ last = None
    /\ pages' = Links(queries)
    /\ listening' = TRUE
    /\ UNCHANGED << alive, pending, unsettled, last >>

\* the setInterval callback calls getPages, which awaits its query
Interval ==
    /\ alive /\ listening /\ last = None
    /\ pending < MaxPending
    /\ pending' = pending + 1
    /\ UNCHANGED << pages, listening, alive, unsettled, last >>

\* getPages after its await: this.pages is assigned the reduced array
GetPages(queries) ==
    /\ alive /\ pending > 0 /\ last = None
    /\ pages' = Links(queries)
    /\ pending' = pending - 1
    /\ UNCHANGED << listening, alive, unsettled, last >>

\* the recentchange handler, run to completion on one event.  Nothing in the
\* handler catches what it throws: whether the process survives is up to the
\* emitter that called it.
RecentChange(change) ==
    /\ alive /\ listening /\ last = None
    /\ unsettled < MaxUnsettled
    /\ last' = Handle(change, pages)
    /\ unsettled' = IF last'.kind = "tweeted" THEN unsettled + 1 ELSE unsettled
    /\ IF last'.kind = "threw" THEN alive' \in BOOLEAN ELSE alive' = alive
    /\ UNCHANGED << pages, listening, pending >>

\* the handler has returned; nothing of the run is kept
Return ==
    /\ last # None
    /\ last' = None
    /\ UNCHANGED << pages, listening, alive, pending, unsettled >>

\* the promise of twitter.v1.tweet settles.  No one awaits it or catches its
\* rejection: whether the process survives an unhandled rejection is up to
\* the runtime.
Settle(fulfilled) ==
    /\ alive /\ unsettled > 0 /\ last = None
    /\ unsettled' = unsettled - 1
    /\ IF fulfilled THEN alive' = alive ELSE alive' \in BOOLEAN
    /\ UNCHANGED << pages, listening, pending, last >>

Next ==
    \/ \E q \in Queries : Start(q)
    \/ Interval
    \/ \E q \in Queries : GetPages(q)
    \/ \E c \in Events : RecentChange(c)
    \/ Return
    \/ \E f \in BOOLEAN : Settle(f)

Spec == Init /\ [][Next]_vars

(***************************************************************************)
(* Properties                                                              *)
(***************************************************************************)

Tweeted == last.kind = "tweeted"

\* the link with the revision id in it
DiffLink(revision) ==
    "https://en.wikipedia.org/wiki/Special:Diff/" \o NumToString(revision)

\* the message with `shown` as its quoted reason
WithReason(change, shown) ==
    "New revert by " \o change.user \o " on \"" \o change.title \o "\": \"" \o shown
      \o "\" " \o DiffLink(change.revision)

\* the message of the no-reason template
WithNoReason(change) ==
    "New revert by " \o change.user \o " on \"" \o change.title
      \o "\" with no given reason. " \o DiffLink(change.revision)

\* the length of a text when its link counts as the 24-character filler
Counted(text, change) == Len(text) - Len(DiffLink(change.revision)) + FillerLength

\* the characters left for the reason when the link counts as the filler
Budget(change) == TweetLimit - Counted(WithReason(change, ""), change)

\* no replacement pattern and no placeholder in a text
PatternFree(str) == ~Includes(str, "$") /\ ~Includes(str, "{{{")

\* editor, title and reason are plain: no $, no {{{, and no "https:" in the
\* editor or title
PlainFields(o) ==
    /\ PatternFree(o.change.user) /\ ~Includes(o.change.user, "https:")
    /\ PatternFree(o.change.title) /\ ~Includes(o.change.title, "https:")
    /\ PatternFree(o.reason)

\* the event passes every filter that comes before the signatures
PassesFilters(o) ==
    /\ o.change.wiki = "enwiki" /\ o.change.type = "edit"
    /\ \E i \in 1..Len(o.seen) : o.seen[i] = o.change.title
    /\ o.change.undef = {}
    /\ ~Includes(o.change.comment, "([[WP:HG|HG]])")
    /\ o.change.user # "ClueBot NG"

RollbackWithReason ==
    "Reverted 1 edit by Foo (talk) to last version by Bar (talk): unsourced claim"

UndoAlone == "Undid revision 12345 by Foo (talk)"

UndoAloneLinked ==
    "Undid revision 12345 by [[Special:Contributions/Foo|Foo]] ([[User talk:Foo|talk]])"

C2_RollbackReason ==
    last.kind # "none" /\ PassesFilters(last) /\ last.change.parsedcomment = RollbackWithReason
        => Tweeted /\ last.reason = "unsourced claim"

\* C3: an undo summary with nothing after it, on a monitored page, is
\* published with the empty reason and the no-reason template.
C3_UndoAloneNoReason ==
    /\ last.kind # "none" /\ PassesFilters(last)
    /\ last.change.comment \in {UndoAlone, UndoAloneLinked}
    => /\ Tweeted
       /\ last.reason = ""
       /\ last.template = "TWEET_TEXT_EMPTY"
       /\ last.text = WithNoReason(last.change)

C3_Witness ==
    /\ Tweeted /\ PassesFilters(last)
    /\ last.change.comment = UndoAloneLinked
    /\ last.text = WithNoReason(last.change)

\* C4 as stated: stripping an already stripped summary changes nothing.
C4_StripIdempotent == Tweeted => strippedSummary(last.reason) = last.reason

\* C5: nothing is published for an event whose comment carries the Huggle
\* marker or whose editor is ClueBot NG.
C5_ExemptNeverPublished ==
    Tweeted => /\ ~Includes(last.change.comment, "([[WP:HG|HG]])")
               /\ last.change.user # "ClueBot NG"

\* a rollback summary with the marker, on a monitored page, by another
\* editor, was handled and not published
C5_Witness ==
    /\ last.kind = "returned"
    /\ last.change.wiki = "enwiki" /\ last.change.type = "edit"
    /\ \E i \in 1..Len(last.seen) : last.seen[i] = last.change.title
    /\ last.change.user = "Foo"
    /\ last.change.comment = RollbackWithReason \o " ([[WP:HG|HG]])"

\* C6: nothing is published for an event whose title is not in this.pages
\* when the event is handled.
C6_UnmonitoredNeverPublished ==
    Tweeted => \E i \in 1..Len(last.seen) : last.seen[i] = last.change.title

\* an undo on a page that is not on the list the handler read, though it is
\* on the list of another answer, was handled and not published
C6_Witness ==
    /\ last.kind = "returned"
    /\ last.change.title = "Hurricane Katrina"
    /\ last.seen = << "Typhoon Tip" >>
    /\ last.change.comment = UndoAlone
    /\ last.change.user = "Foo"

\* C7 as stated: no error of one event ends event processing.
C7_ProcessingContinues == listening => alive

\* pgs holds exactly the titles of every batch of one answer of the wiki
CompleteList(pgs) ==
    \E q \in Queries :
        /\ \A i \in 1..Len(q) : \A j \in 1..Len(q[i]) :
              \E n \in 1..Len(pgs) : pgs[n] = q[i][j]
        /\ \A n \in 1..Len(pgs) : \E i \in 1..Len(q) : \E j \in 1..Len(q[i]) :
              pgs[n] = q[i][j]

\* C8: the array a membership check reads, and this.pages whenever the
\* handler can run, is the whole list of one answer, never a part of one.
C8_PagesReplacedWhole ==
    /\ listening => CompleteList(pages)
    /\ last.kind # "none" => CompleteList(last.seen)

\* an event was handled against a list of several batches while a refresh
\* was under way
C8_Witness ==
    /\ last.kind # "none" /\ pending > 0
    /\ Len(last.seen) = 3
    /\ CompleteList(last.seen)

C10_NoEmptyQuotedReason == Tweeted => last.text # WithReason(last.change, "")

====
